---- MODULE Spec2Model ----
(***************************************************************************)
(* The event-handling pipeline of taskcluster-github (src/handlers.js):    *)
(* the dispatcher set up by Handlers.setup and the three message handlers  *)
(* jobHandler, statusHandler and groupStatusHandler, together with the     *)
(* collaborators they act on: the Builds and CheckRuns tables, the GitHub  *)
(* installation client (check-runs, comments) and the Taskcluster queue    *)
(* (tasks of a task group).                                                *)
(*                                                                         *)
(* A handler is an async function: every await of a remote call is a       *)
(* suspension point.  The model gives one action to every await, the code  *)
(* from the answer of one remote call up to the next call, so that         *)
(* handlers interleave exactly at those points.  The answers of the remote *)
(* collaborators (success, a 404, an API fault, ...) are inputs drawn      *)
(* with \E.                                                                *)
(***************************************************************************)
EXTENDS Naturals, Sequences, FiniteSets, TLC

----------------------------------------------------------------------------
(* Bounds of the model *)

MaxMsgs == 3         \* messages published in a run, of all kinds
MaxJobMsgs == 2      \* webhook job messages among them (redeliveries included)
MaxStatusMsgs == 1   \* task-terminal messages among them
MaxGroupMsgs == 2    \* task-group-resolved messages among them
MaxTasks == 2        \* tasks a compiled graph can hold
MaxGroups == 1       \* distinct task-group identifiers
MaxFaults == 1       \* infrastructure faults (API or storage calls failing) in a run
MaxSubmissions == 2  \* createTask calls the deliveries of a job make in a run

----------------------------------------------------------------------------
(* Lookup tables of the source *)

\* TITLES: check-run status or conclusion -> title
TITLES ==
  [s \in {"success", "failure", "neutral", "cancelled", "timed_out",
          "action_required", "queued", "in_progress", "completed"} |->
     CASE s = "success" -> "Success"
       [] s = "failure" -> "Failure"
       [] s = "neutral" -> "It is neither good nor bad"
       [] s = "cancelled" -> "Cancelled"
       [] s = "timed_out" -> "Timed out"
       [] s = "action_required" -> "Action required"
       [] s = "queued" -> "Queued"
       [] s = "in_progress" -> "In progress"
       [] s = "completed" -> "Completed"]

\* CONCLUSIONS: queue task state -> check-run conclusion
CONCLUSIONS ==
  [s \in {"completed", "failed", "exception"} |->
     CASE s = "completed" -> "success"
       [] s = "failed" -> "failure"
       [] s = "exception" -> "failure"]

----------------------------------------------------------------------------
(* Values *)

Undefined == "undefined"

Groups == 1..MaxGroups
Tasks == 1..MaxTasks

JobMsgs == {<<"job", i>> : i \in 1..MaxJobMsgs}
StatusMsgs == {<<"status", i>> : i \in 1..MaxStatusMsgs}
GroupMsgs == {<<"group", i>> : i \in 1..MaxGroupMsgs}
MsgIds == JobMsgs \cup StatusMsgs \cup GroupMsgs

\* The three listeners of Handlers.setup
Listeners == {"job", "status", "groupStatus"}

\* A message not published yet
NoMsg == [kind |-> "none"]

\* Webhook job messages as the api publishes them: organization and repository
\* are sanitized ("." replaced by "%"), eventType is the dotted event type split
\* at its dots, sha is absent for a release (only the tag name is known).
JobPayloads ==
  { [kind |-> "job", eventType |-> <<"push">>, eventId |-> "ev-push",
     organization |-> <<"o", "%", "g">>, repository |-> <<"r">>,
     installationId |-> 7, sha |-> "head-sha", pullNumber |-> 0],
    [kind |-> "job", eventType |-> <<"pull_request", "opened">>, eventId |-> "ev-pr",
     organization |-> <<"o", "%", "g">>, repository |-> <<"r">>,
     installationId |-> 7, sha |-> "head-sha", pullNumber |-> 36],
    [kind |-> "job", eventType |-> <<"release">>, eventId |-> "ev-rel",
     organization |-> <<"o", "%", "g">>, repository |-> <<"r">>,
     installationId |-> 7, sha |-> Undefined, pullNumber |-> 0] }

\* What .taskcluster.yml at the head commit is: text that is no YAML, YAML that
\* the intree builder rejects, or a config compiling to n tasks.
Confs ==
  {[kind |-> "yamlError", n |-> 0], [kind |-> "configError", n |-> 0]}
    \cup {[kind |-> "tasks", n |-> k] : k \in 0..MaxTasks}

NoBuild == [exists |-> FALSE]
NoCheck == [exists |-> FALSE]
NoRun == [exists |-> FALSE]

\* groupState of jobHandler
Queued == [status |-> "queued", conclusion |-> Undefined]

\* Failed with the assignment in the catch block of createTasks left out:
\* groupState stays as it was
FailedStillQueued == Queued
Failed == [status |-> "completed", conclusion |-> "failure"]

\* Local state of a handler invocation that has not started
Idle ==
  [handler |-> "none", pc |-> "idle", path |-> "none", err |-> "none", g |-> 0, n |-> 0,
   groupState |-> Queued, chain |-> [i \in Tasks |-> "idle"],
   submit |-> [i \in Tasks |-> "idle"], run |-> Undefined,
   build |-> NoBuild, agg |-> "success", token |-> 0, seen |-> {}]

----------------------------------------------------------------------------
VARIABLES
  jobQueueName,    \* this.jobQueueName: Undefined or a queue name
  statusQueueName, \* this.statusQueueName: Undefined or a queue name
  repoconf,        \* what .taskcluster.yml of the repository holds
  msg,             \* msg[m]: the payload of message m once published
  inv,             \* inv[m]: the handler invocation message m was dispatched to
  acked,           \* acked[m]: the listener has acknowledged m
  settled,         \* settled[m]: "no", "fulfilled" or "rejected"
  reports,         \* reports[m]: calls of monitor.reportError for m
  Builds,          \* the Builds table, keyed by taskGroupId
  CheckRuns,       \* the CheckRuns table, keyed by (taskGroupId, taskId)
  ghChecks,        \* check-runs on GitHub, keyed by the invocation and task that opened them
  ghComments,      \* ghComments[m]: comments invocation m posted
  taskState,       \* the queue: state of every task of every group
  faults           \* infrastructure faults so far

vars == <<jobQueueName, statusQueueName, repoconf, msg, inv, acked, settled, reports,
          Builds, CheckRuns, ghChecks, ghComments, taskState, faults>>

----------------------------------------------------------------------------
(* Construction: Handlers' constructor and setup, before any message *)

Init ==
  /\ \E named \in BOOLEAN :
       /\ jobQueueName = IF named THEN "github-jobs" ELSE Undefined
       /\ statusQueueName = IF named THEN "github-status" ELSE Undefined
  /\ repoconf \in Confs
  /\ msg = [m \in MsgIds |-> NoMsg]
  /\ inv = [m \in MsgIds |-> Idle]
  /\ acked = [m \in MsgIds |-> FALSE]
  /\ settled = [m \in MsgIds |-> "no"]
  /\ reports = [m \in MsgIds |-> 0]
  /\ Builds = [g \in Groups |-> NoBuild]
  /\ CheckRuns = [k \in Groups \X Tasks |-> NoCheck]
  /\ ghChecks = [k \in JobMsgs \X Tasks |-> NoRun]
  /\ ghComments = [m \in MsgIds |-> <<>>]
  /\ taskState = [k \in Groups \X Tasks |-> "none"]
  /\ faults = 0

----------------------------------------------------------------------------
(* The environment: webhooks arrive, tasks run, the queue publishes events *)

Terminal == {"completed", "failed", "exception"}

\* Messages of a kind are published in the order of their index, and no more
\* than MaxMsgs in all
NextOf(m) ==
  /\ Cardinality({x \in MsgIds : msg[x] # NoMsg}) < MaxMsgs
  /\ IF m[2] = 1 THEN TRUE ELSE msg[<<m[1], m[2] - 1>>] # NoMsg

\* The api publishes the job of a webhook; delivery is at-least-once, the later
\* job messages are the same job delivered again, as long as the deliveries
\* together submit no more than MaxSubmissions tasks
PublishJob(m, p) ==
  /\ m \in JobMsgs /\ msg[m] = NoMsg /\ NextOf(m)
  /\ IF m[2] = 1 THEN TRUE ELSE p = msg[<<m[1], m[2] - 1>>]
  /\ repoconf.n * m[2] <= MaxSubmissions
  /\ msg' = [msg EXCEPT ![m] = p]
  /\ UNCHANGED <<jobQueueName, statusQueueName, repoconf, inv, acked, settled,
                 reports, Builds, CheckRuns, ghChecks, ghComments, taskState, faults>>

\* A worker resolves a task the queue holds
TaskResolves(g, t, s) ==
  /\ taskState[<<g, t>>] = "pending"
  /\ taskState' = [taskState EXCEPT ![<<g, t>>] = s]
  /\ UNCHANGED <<jobQueueName, statusQueueName, repoconf, msg, inv, acked, settled,
                 reports, Builds, CheckRuns, ghChecks, ghComments, faults>>

\* The queue runs a task again (rerunTask) after its group has resolved: the
\* task is pending once more, and the group resolves once more when it ends,
\* with another task-group-resolved message
TaskReruns(g, t) ==
  /\ taskState[<<g, t>>] \in Terminal
  /\ \E m \in GroupMsgs : msg[m] # NoMsg /\ msg[m].taskGroupId = g
  /\ \E m \in GroupMsgs : msg[m] = NoMsg /\ NextOf(m)
  /\ taskState' = [taskState EXCEPT ![<<g, t>>] = "pending"]
  /\ UNCHANGED <<jobQueueName, statusQueueName, repoconf, msg, inv, acked, settled,
                 reports, Builds, CheckRuns, ghChecks, ghComments, faults>>

\* The queue publishes task-completed / task-failed / task-exception
PublishStatus(m, g, t) ==
  /\ m \in StatusMsgs /\ msg[m] = NoMsg /\ NextOf(m)
  /\ taskState[<<g, t>>] \in Terminal
  /\ msg' = [msg EXCEPT ![m] = [kind |-> "status", taskGroupId |-> g, taskId |-> t,
                                state |-> taskState[<<g, t>>]]]
  /\ UNCHANGED <<jobQueueName, statusQueueName, repoconf, inv, acked, settled,
                 reports, Builds, CheckRuns, ghChecks, ghComments, taskState, faults>>

\* The tasks of group g the queue knows
Members(g) == {t \in Tasks : taskState[<<g, t>>] # "none"}

\* The queue publishes task-group-resolved once no task of the group is left running
PublishGroup(m, g) ==
  /\ m \in GroupMsgs /\ msg[m] = NoMsg /\ NextOf(m)
  /\ Members(g) # {}
  /\ \A t \in Members(g) : taskState[<<g, t>>] \in Terminal
  /\ msg' = [msg EXCEPT ![m] = [kind |-> "group", taskGroupId |-> g]]
  /\ UNCHANGED <<jobQueueName, statusQueueName, repoconf, inv, acked, settled,
                 reports, Builds, CheckRuns, ghChecks, ghComments, taskState, faults>>

----------------------------------------------------------------------------
(* Handlers.setup: listeners, bindings and callHandler *)

\* The queueName option each PulseListener is constructed with
QueueNameOf(l) ==
  CASE l = "status" -> statusQueueName
    [] l = "job" -> jobQueueName
    [] l = "groupStatus" -> statusQueueName

\* The queue a listener consumes: the named queue, or with no name a queue of its own
QueueOf(l) ==
  IF QueueNameOf(l) = Undefined THEN <<"exclusive", l>> ELSE <<"named", QueueNameOf(l)>>

\* The exchanges a listener binds to its queue: the message kinds routed there
BindingsOf(l) ==
  CASE l = "job" -> {"job"}
    [] l = "status" -> {"status"}
    [] l = "groupStatus" -> {"group"}

\* The listeners a message of kind k can be delivered to: the consumers of a
\* queue k is routed to
ConsumersFor(k) ==
  {l \in Listeners : \E b \in Listeners : QueueOf(b) = QueueOf(l) /\ k \in BindingsOf(b)}

\* The handler each listener's 'message' callback calls
HandlerOf(l) ==
  CASE l = "job" -> "job"
    [] l = "status" -> "status"
    [] l = "groupStatus" -> "groupStatus"

\* Whether the callback callHandler builds hands the handler's promise back to
\* the listener: its body is a bare statement, it returns undefined
CallbackReturnsPromise == FALSE

\* ReportsAfter with the rejection swallowed: no call of monitor.reportError
ReportsAfterSwallowed(r, err) == r

\* .catch of callHandler: a rejection is reported to the monitor
ReportsAfter(r, err) == IF err # "none" THEN r + 1 ELSE r

\* The handler of message m settles with err ("none": fulfilled): the .catch and
\* .then of callHandler, and the listener's acknowledgment if it waited for them
Settle(m, err) ==
  /\ settled' = [settled EXCEPT ![m] = IF err = "none" THEN "fulfilled" ELSE "rejected"]
  /\ reports' = [reports EXCEPT ![m] = ReportsAfter(@, err)]
  /\ acked' = [acked EXCEPT ![m] = TRUE]

\* An error that is the failure of a remote call, not an answer of the program
IsFault(err) == err \in {"ApiError", "StorageError"}

\* A step that ends with err: the run has room for the fault if it is one
Fault(err) ==
  /\ IsFault(err) => faults < MaxFaults
  /\ faults' = IF IsFault(err) THEN faults + 1 ELSE faults

\* Whether handler h throws on payload p before its first await: statusHandler
\* reads payload.status.taskGroupId, and only a task-terminal payload has a
\* status; the other handlers read properties of the payload itself
ThrowsAtOnce(h, p) == h = "status" /\ p.kind # "status"

\* A listener takes message m off its queue and calls its handler, which runs
\* up to its first await; the callback returns and the listener acknowledges m
\* unless it was handed a promise.  A handler that throws before its first await
\* is rejected, and reported, in the same turn
Deliver(m, l) ==
  /\ msg[m] # NoMsg /\ inv[m].handler = "none"
  /\ l \in ConsumersFor(msg[m].kind)
  /\ IF ThrowsAtOnce(HandlerOf(l), msg[m])
       THEN /\ inv' = [inv EXCEPT ![m] = [Idle EXCEPT !.handler = HandlerOf(l),
                                                      !.pc = "done", !.err = "TypeError"]]
            /\ Settle(m, "TypeError")
       ELSE /\ inv' = [inv EXCEPT ![m] = [Idle EXCEPT !.handler = HandlerOf(l),
                                                      !.pc = "start"]]
            /\ acked' = [acked EXCEPT ![m] = ~CallbackReturnsPromise]
            /\ UNCHANGED <<settled, reports>>
  /\ UNCHANGED <<jobQueueName, statusQueueName, repoconf, msg,
                 Builds, CheckRuns, ghChecks, ghComments, taskState, faults>>

----------------------------------------------------------------------------
(* jobHandler *)

\* String.replace(/%/g, '.') on a string given as its characters
Decode(str) == [i \in 1..Len(str) |-> IF str[i] = "%" THEN "." ELSE str[i]]

\* eventType.startsWith('pull_request.')
IsPullRequest(eventType) == Len(eventType) >= 2 /\ eventType[1] = "pull_request"

\* The sha jobHandler works with: the payload's, or the one the tag resolves to
ShaOf(p) == IF p.sha = Undefined THEN "tag-sha" ELSE p.sha

\* ExceptionComment with the pull number left unread: always on the commit
ExceptionCommentOnCommit(error, pullNumber) ==
  [summary |-> "Submitting the task to Taskcluster failed. Details",
   error |-> error,
   on |-> "commit"]

\* The comment createExceptionComment posts: on the pull request when it is
\* given a pull number, else on the commit
ExceptionComment(error, pullNumber) ==
  [summary |-> "Submitting the task to Taskcluster failed. Details",
   error |-> error,
   on |-> IF pullNumber # 0 THEN "pull" ELSE "commit"]

\* The comment jobHandler posts when prAllowed answers false
NotAllowedComment ==
  [summary |-> "No Taskcluster jobs started for this pull request",
   error |-> "allowPullRequests",
   on |-> "pull"]

\* OnFetch with the test of e.code left out: a 404 is thrown like any error
OnFetchRethrowsAll(fetch) ==
  CASE fetch = "ok" -> "continue"
    [] OTHER -> "throw"

\* The catch block around getContent: a 404 ends the handler, any other error
\* is thrown again
OnFetch(fetch) ==
  CASE fetch = "ok" -> "continue"
    [] fetch = "404" -> "return"
    [] OTHER -> "throw"

\* OnPermission with the negation of the test of prAllowed's answer dropped
OnPermissionInverted(allowed) ==
  CASE allowed = "yes" -> "comment"
    [] allowed = "no" -> "continue"
    [] allowed = "YAMLException" -> "docs-comment"
    [] OTHER -> "throw"

\* The answer of prAllowed for a pull request: tasks are submitted on "yes" only
OnPermission(allowed) ==
  CASE allowed = "yes" -> "continue"
    [] allowed = "no" -> "comment"
    [] allowed = "YAMLException" -> "docs-comment"
    [] OTHER -> "throw"

\* The first stretch of jobHandler, up to the decision to submit tasks, as a
\* function of the payload p, the config conf and the collaborators' answers:
\*   auth     getInstallationGithub succeeds
\*   tagOk    getShaOfCommitRef succeeds
\*   fetch    getContent: "ok", "404" or "error"
\*   allowed  prAllowed: "yes", "no", "YAMLException" or "error"
\*   posted   createComment / createCommitComment succeeds
\* The result: path is the branch that ended the stretch, err the error thrown
\* there ("none": a return, or on path "proceed" the way to createTasks), comment
\* the comment posted, if one was.
JobPrelude(p, conf, auth, tagOk, fetch, allowed, posted) ==
  LET none == [summary |-> "none"]
      Exit(path, e) == [path |-> path, err |-> e, comment |-> none]
      Post(path, c) == IF posted THEN [path |-> path, err |-> "none", comment |-> c]
                       ELSE Exit(path, "ApiError")
  IN  IF ~auth THEN Exit("threw", "ApiError")
      ELSE IF p.sha = Undefined /\ ~tagOk THEN Exit("threw", "ApiError")
      ELSE IF OnFetch(fetch) = "return" THEN Exit("no-yml", "none")
      ELSE IF OnFetch(fetch) = "throw" THEN Exit("threw", "ApiError")
      ELSE IF conf.kind = "yamlError"
             THEN Post("bad-yaml", ExceptionComment("YAMLException", p.pullNumber))
      ELSE IF conf.kind = "configError"
             THEN Post("bad-config", ExceptionComment("ConfigError", p.pullNumber))
      ELSE IF conf.n = 0 THEN Exit("zero-tasks", "none")
      ELSE IF IsPullRequest(p.eventType) /\ OnPermission(allowed) = "comment"
             THEN Post("not-allowed", NotAllowedComment)
      ELSE IF IsPullRequest(p.eventType) /\ OnPermission(allowed) = "docs-comment"
             \* the comment's body reads the variable branch, which nothing defines
             THEN Exit("permission-yaml", "ReferenceError")
      ELSE IF IsPullRequest(p.eventType) /\ OnPermission(allowed) = "throw"
             THEN Exit("threw", "ApiError")
      ELSE Exit("proceed", "none")

\* jobHandler leaves with the result r of the stretch: the comment r holds is
\* posted, the handler returns or throws r.err
JobLeave(m, r) ==
  /\ Fault(r.err)
  /\ ghComments' = [ghComments EXCEPT ![m] =
                      IF r.comment.summary # "none" THEN Append(@, r.comment) ELSE @]
  /\ inv' = [inv EXCEPT ![m].pc = "done", ![m].path = r.path, ![m].err = r.err]
  /\ Settle(m, r.err)

\* jobHandler goes on to its next await
JobGoOn(m, pc) ==
  /\ inv' = [inv EXCEPT ![m].pc = pc]
  /\ UNCHANGED <<ghComments, settled, reports, acked, faults>>

\* jobHandler enters the try block: taskGroupId is read off the graph and
\* createTasks issues queue.createTask for every task of it
JobEnter(m, g) ==
  /\ inv' = [inv EXCEPT ![m].pc = "createTasks", ![m].path = "proceed",
                        ![m].g = g, ![m].n = repoconf.n,
                        ![m].submit = [i \in Tasks |->
                                         IF i <= repoconf.n THEN "pending" ELSE "idle"]]
  /\ UNCHANGED <<ghComments, settled, reports, acked, faults>>

\* await getInstallationGithub
JobAuth(m) ==
  /\ inv[m].handler = "job" /\ inv[m].pc = "start"
  /\ \E auth \in BOOLEAN :
       LET r == JobPrelude(msg[m], repoconf, auth, TRUE, "ok", "yes", TRUE)
       IN  IF ~auth THEN JobLeave(m, r)
           ELSE JobGoOn(m, IF msg[m].sha = Undefined THEN "sha" ELSE "fetch")
  /\ UNCHANGED <<jobQueueName, statusQueueName, repoconf, msg, Builds, CheckRuns,
                 ghChecks, taskState>>

\* await getShaOfCommitRef: only for a payload without a sha
JobSha(m) ==
  /\ inv[m].handler = "job" /\ inv[m].pc = "sha"
  /\ \E tagOk \in BOOLEAN :
       LET r == JobPrelude(msg[m], repoconf, TRUE, tagOk, "ok", "yes", TRUE)
       IN  IF ~tagOk THEN JobLeave(m, r) ELSE JobGoOn(m, "fetch")
  /\ UNCHANGED <<jobQueueName, statusQueueName, repoconf, msg, Builds, CheckRuns,
                 ghChecks, taskState>>

\* await getContent, then yaml.safeLoad and intree on what it returned, up to the
\* next await: of the comment on a config in error, of prAllowed for a pull
\* request, or of createTasks
JobFetch(m) ==
  /\ inv[m].handler = "job" /\ inv[m].pc = "fetch"
  /\ \E fetch \in {"ok", "404", "error"}, g \in Groups :
       LET r == JobPrelude(msg[m], repoconf, TRUE, TRUE, fetch, "yes", TRUE)
       IN  IF r.path \in {"threw", "no-yml", "zero-tasks"} THEN JobLeave(m, r)
           ELSE IF r.path \in {"bad-yaml", "bad-config"} THEN JobGoOn(m, "comment")
           ELSE IF IsPullRequest(msg[m].eventType) THEN JobGoOn(m, "permission")
           ELSE JobEnter(m, g)
  /\ UNCHANGED <<jobQueueName, statusQueueName, repoconf, msg, Builds, CheckRuns,
                 ghChecks, taskState>>

\* await prAllowed, up to the next await: of the comment for a refused pull
\* request, or of createTasks
JobPermission(m) ==
  /\ inv[m].handler = "job" /\ inv[m].pc = "permission"
  /\ \E allowed \in {"yes", "no", "YAMLException", "error"}, g \in Groups :
       LET r == JobPrelude(msg[m], repoconf, TRUE, TRUE, "ok", allowed, TRUE)
       IN  IF r.path = "proceed" THEN JobEnter(m, g)
           ELSE IF r.path = "not-allowed" THEN JobGoOn(m, "comment")
           ELSE JobLeave(m, r)
  /\ UNCHANGED <<jobQueueName, statusQueueName, repoconf, msg, Builds, CheckRuns,
                 ghChecks, taskState>>

\* await createComment / createCommitComment of the comment on a config in
\* error or on a refused pull request
JobComment(m) ==
  /\ inv[m].handler = "job" /\ inv[m].pc = "comment"
  /\ \E posted \in BOOLEAN :
       JobLeave(m, JobPrelude(msg[m], repoconf, TRUE, TRUE, "ok", "no", posted))
  /\ UNCHANGED <<jobQueueName, statusQueueName, repoconf, msg, Builds, CheckRuns,
                 ghChecks, taskState>>

\* The finally block starts: one chain per task, each with its checks.create issued
ChainsStarted(m) == [i \in Tasks |-> IF i <= inv[m].n THEN "pending" ELSE "idle"]

\* One queue.createTask of createTasks is answered.  The Promise.all the handler
\* awaits rejects on the first call that fails (catch: groupState = failure, then
\* the comment) and resolves when all have succeeded (finally); the calls still
\* out are answered later, whatever the handler does by then
JobCreateTask(m, i) ==
  /\ inv[m].handler = "job" /\ inv[m].submit[i] = "pending"
  /\ \E ok \in BOOLEAN :
       LET k == <<inv[m].g, i>>
           waiting == inv[m].pc = "createTasks"
           all == \A j \in (1..inv[m].n) \ {i} : inv[m].submit[j] = "ok"
       IN  /\ taskState' = [taskState EXCEPT ![k] =
                              IF ok /\ @ = "none" THEN "pending" ELSE @]
           /\ inv' = [inv EXCEPT
                        ![m].submit[i] = IF ok THEN "ok" ELSE "err",
                        ![m].pc = IF waiting /\ ~ok THEN "submitComment"
                                  ELSE IF waiting /\ all THEN "checks" ELSE @,
                        ![m].groupState = IF waiting /\ ~ok THEN Failed ELSE @,
                        ![m].chain = IF waiting /\ ok /\ all THEN ChainsStarted(m) ELSE @]
  /\ UNCHANGED <<jobQueueName, statusQueueName, repoconf, msg, acked, settled, reports,
                 Builds, CheckRuns, ghChecks, ghComments, faults>>

\* await createExceptionComment in the catch block of createTasks, called
\* without a pull number; then the finally block, whether it posted or threw
JobSubmitComment(m) ==
  /\ inv[m].handler = "job" /\ inv[m].pc = "submitComment"
  /\ \E posted \in BOOLEAN :
       LET e == IF posted THEN "none" ELSE "ApiError"
       IN  /\ Fault(e)
           /\ ghComments' = [ghComments EXCEPT ![m] =
                               IF posted
                                 THEN Append(@, ExceptionComment("SubmitError", 0)) ELSE @]
           /\ inv' = [inv EXCEPT ![m].pc = "checks", ![m].err = e,
                                 ![m].chain = ChainsStarted(m)]
  /\ UNCHANGED <<jobQueueName, statusQueueName, repoconf, msg, acked, settled, reports,
                 Builds, CheckRuns, ghChecks, taskState>>

\* The check-run chain i of invocation m asks GitHub to create
NewCheckRun(m, i) ==
  LET gs == inv[m].groupState
  IN  [exists |-> TRUE,
       owner |-> Decode(msg[m].organization), repo |-> Decode(msg[m].repository),
       head_sha |-> ShaOf(msg[m]),
       name |-> <<i, msg[m].eventType[1]>>,
       title |-> IF gs.conclusion # Undefined THEN TITLES[gs.conclusion]
                 ELSE TITLES[gs.status],
       details |-> <<inv[m].g, i>>,
       status |-> gs.status, conclusion |-> gs.conclusion]

\* NewCheckRecord with the identifier of the check suite stored as that of the
\* check-run
NewCheckRecordSuiteId(m, i) ==
  [exists |-> TRUE, taskGroupId |-> inv[m].g, taskId |-> i,
   checkSuiteId |-> <<m, 0>>, checkRunId |-> <<m, 0>>]

\* The record CheckRuns.create is given for the check-run GitHub returned
NewCheckRecord(m, i) ==
  [exists |-> TRUE, taskGroupId |-> inv[m].g, taskId |-> i,
   checkSuiteId |-> <<m, 0>>, checkRunId |-> <<m, i>>]

\* CheckCreateError with every error swallowed
CheckCreateErrorSwallowed(code) == "none"

\* CheckCreateError without the test of err.code: every error is thrown again
CheckCreateErrorRethrown(code) == code

\* What becomes of an error of CheckRuns.create in its .catch: "none" when it is
\* swallowed
CheckCreateError(code) == IF code # "EntityAlreadyExists" THEN code ELSE "none"

\* The first await of a chain of the Promise.all of the finally block:
\* checks.create.  The first chain to fail rejects the Promise.all, and with it
\* the handler; the other chains run on.
JobCheckRun(m, i) ==
  /\ inv[m].handler = "job" /\ inv[m].chain[i] = "pending"
  /\ \E created \in BOOLEAN :
       LET e == IF created THEN "none" ELSE "ApiError"
           fails == e # "none" /\ inv[m].pc = "checks"
       IN  /\ Fault(e)
           /\ ghChecks' = [ghChecks EXCEPT ![<<m, i>>] =
                             IF created THEN NewCheckRun(m, i) ELSE @]
           /\ inv' = [inv EXCEPT ![m].chain[i] = IF created THEN "created" ELSE "err",
                                 ![m].pc = IF fails THEN "done" ELSE @,
                                 ![m].err = IF fails THEN e ELSE @]
           /\ IF fails THEN Settle(m, e) ELSE UNCHANGED <<settled, reports, acked>>
  /\ UNCHANGED <<jobQueueName, statusQueueName, repoconf, msg, Builds, CheckRuns,
                 ghComments, taskState>>

\* The second await of a chain: CheckRuns.create for the check-run GitHub
\* returned, and its .catch
JobCheckRecord(m, i) ==
  /\ inv[m].handler = "job" /\ inv[m].chain[i] = "created"
  /\ \E stored \in BOOLEAN :
       LET k == <<inv[m].g, i>>
           code == IF ~stored THEN "StorageError"
                   ELSE IF CheckRuns[k].exists THEN "EntityAlreadyExists"
                   ELSE "none"
           e == CheckCreateError(code)
           fails == e # "none" /\ inv[m].pc = "checks"
       IN  /\ Fault(e)
           /\ CheckRuns' = [CheckRuns EXCEPT ![k] =
                              IF code = "none" THEN NewCheckRecord(m, i) ELSE @]
           /\ inv' = [inv EXCEPT ![m].chain[i] = IF e = "none" THEN "ok" ELSE "err",
                                 ![m].pc = IF fails THEN "done" ELSE @,
                                 ![m].err = IF fails THEN e ELSE @]
           /\ IF fails THEN Settle(m, e) ELSE UNCHANGED <<settled, reports, acked>>
  /\ UNCHANGED <<jobQueueName, statusQueueName, repoconf, msg, Builds, ghChecks,
                 ghComments, taskState>>

\* The Builds property of the Handlers object the .catch of Builds.create reads
\* (this.Builds): the constructor sets none, the table is this.context.Builds
ThisBuilds == Undefined

\* BuildStateOf without the conclusion: the status alone
BuildStateOfStatus(groupState) == groupState.status

\* state = groupState.conclusion || groupState.status
BuildStateOf(groupState) ==
  IF groupState.conclusion # Undefined THEN groupState.conclusion ELSE groupState.status

\* The record Builds.create is given
NewBuild(m) ==
  [exists |-> TRUE,
   organization |-> Decode(msg[m].organization),
   repository |-> Decode(msg[m].repository),
   sha |-> ShaOf(msg[m]),
   taskGroupId |-> inv[m].g,
   state |-> BuildStateOf(inv[m].groupState),
   created |-> 0, updated |-> 0, etag |-> 0,
   installationId |-> msg[m].installationId,
   eventType |-> msg[m].eventType,
   eventId |-> msg[m].eventId]

\* The assertions of the .catch of Builds.create on the record it loaded
BuildMatches(build, new) ==
  /\ build.state = new.state
  /\ build.organization = new.organization
  /\ build.repository = new.repository
  /\ build.sha = new.sha
  /\ build.eventType = new.eventType
  /\ build.eventId = new.eventId

\* The .catch of Builds.create: the error the handler ends with
BuildCreateError(code, build, new) ==
  IF code # "EntityAlreadyExists" THEN code
  ELSE IF ThisBuilds = Undefined THEN "TypeError"
  ELSE IF ~BuildMatches(build, new) THEN "AssertionError"
  ELSE "none"

\* The end of the finally block, once every chain is done: Builds.create and its
\* .catch; an error pending from the catch block of createTasks is rethrown
JobCreateBuild(m) ==
  /\ inv[m].handler = "job" /\ inv[m].pc = "checks"
  /\ \A i \in 1..inv[m].n : inv[m].chain[i] = "ok"
  /\ \E stored \in BOOLEAN :
       LET g == inv[m].g
           code == IF ~stored THEN "StorageError"
                   ELSE IF Builds[g].exists THEN "EntityAlreadyExists"
                   ELSE "none"
           e == BuildCreateError(code, Builds[g], NewBuild(m))
           err == IF e # "none" THEN e ELSE inv[m].err
       IN  /\ Fault(e)
           /\ Builds' = [Builds EXCEPT ![g] = IF code = "none" THEN NewBuild(m) ELSE @]
           /\ inv' = [inv EXCEPT ![m].pc = "done", ![m].err = err]
           /\ Settle(m, err)
  /\ UNCHANGED <<jobQueueName, statusQueueName, repoconf, msg, CheckRuns, ghChecks,
                 ghComments, taskState>>

----------------------------------------------------------------------------
(* statusHandler *)

\* TaskStateUpdate without the lookup in CONCLUSIONS: every task concludes success
TaskStateUpdateSuccess(state) == [status |-> "completed", conclusion |-> "success"]

\* taskState of statusHandler: what the check-run is updated to
TaskStateUpdate(state) == [status |-> "completed", conclusion |-> CONCLUSIONS[state]]

\* statusHandler ends with the error e ("none": fulfilled)
StatusEnd(m, e) ==
  /\ inv' = [inv EXCEPT ![m].pc = "done", ![m].err = e, ![m].build = NoBuild,
                        ![m].run = Undefined]
  /\ Settle(m, e)

\* statusHandler goes on to its next await
StatusGoOn(m, pc, build, run) ==
  /\ inv' = [inv EXCEPT ![m].pc = pc, ![m].build = build, ![m].run = run]
  /\ UNCHANGED <<settled, reports, acked>>

\* await Builds.load of payload.status.taskGroupId
StatusLoadBuild(m) ==
  /\ inv[m].handler = "status" /\ inv[m].pc = "start"
  /\ \E loaded \in BOOLEAN :
       LET e == IF ~loaded THEN "StorageError"
                ELSE IF ~Builds[msg[m].taskGroupId].exists THEN "ResourceNotFound"
                ELSE "none"
       IN  /\ Fault(e)
           /\ IF e = "none"
                THEN StatusGoOn(m, "loadCheck", Builds[msg[m].taskGroupId], Undefined)
                ELSE StatusEnd(m, e)
  /\ UNCHANGED <<jobQueueName, statusQueueName, repoconf, msg, Builds, CheckRuns,
                 ghChecks, ghComments, taskState>>

\* await CheckRuns.load
StatusLoadCheck(m) ==
  /\ inv[m].handler = "status" /\ inv[m].pc = "loadCheck"
  /\ \E loaded \in BOOLEAN :
       LET k == <<msg[m].taskGroupId, msg[m].taskId>>
           e == IF ~loaded THEN "StorageError"
                ELSE IF ~CheckRuns[k].exists THEN "ResourceNotFound"
                ELSE "none"
       IN  /\ Fault(e)
           /\ IF e = "none"
                THEN StatusGoOn(m, "auth", inv[m].build, CheckRuns[k].checkRunId)
                ELSE StatusEnd(m, e)
  /\ UNCHANGED <<jobQueueName, statusQueueName, repoconf, msg, Builds, CheckRuns,
                 ghChecks, ghComments, taskState>>

\* await getInstallationGithub(build.installationId); an error is thrown again
StatusAuth(m) ==
  /\ inv[m].handler = "status" /\ inv[m].pc = "auth"
  /\ \E auth \in BOOLEAN :
       LET e == IF auth THEN "none" ELSE "ApiError"
       IN  /\ Fault(e)
           /\ IF e = "none"
                THEN StatusGoOn(m, "update", inv[m].build, inv[m].run)
                ELSE StatusEnd(m, e)
  /\ UNCHANGED <<jobQueueName, statusQueueName, repoconf, msg, Builds, CheckRuns,
                 ghChecks, ghComments, taskState>>

\* await checks.update of the check-run checkRun.checkRunId with taskState; an
\* error is thrown again
StatusUpdate(m) ==
  /\ inv[m].handler = "status" /\ inv[m].pc = "update"
  /\ \E updated \in BOOLEAN :
       LET e == IF updated THEN "none" ELSE "ApiError"
       IN  /\ Fault(e)
           /\ ghChecks' = IF updated
                            THEN [ghChecks EXCEPT ![inv[m].run] =
                                    [@ EXCEPT !.status = TaskStateUpdate(msg[m].state).status,
                                              !.conclusion =
                                                 TaskStateUpdate(msg[m].state).conclusion]]
                            ELSE ghChecks
           /\ StatusEnd(m, e)
  /\ UNCHANGED <<jobQueueName, statusQueueName, repoconf, msg, Builds, CheckRuns,
                 ghComments, taskState>>

----------------------------------------------------------------------------
(* groupStatusHandler *)

\* Whether message.payload.taskGroupId is defined: a task-terminal payload
\* carries its identifiers under payload.status, and Builds.load is called with
\* an undefined key, which no record has
HasGroupId(p) == p.kind = "group"

\* Builds.load, then groupState = 'success' and params = {}
GroupLoad(m) ==
  /\ inv[m].handler = "groupStatus" /\ inv[m].pc = "start"
  /\ \E loaded \in BOOLEAN :
       LET e == IF ~loaded THEN "StorageError"
                ELSE IF ~HasGroupId(msg[m]) THEN "ResourceNotFound"
                ELSE IF ~Builds[msg[m].taskGroupId].exists THEN "ResourceNotFound"
                ELSE "none"
       IN  /\ Fault(e)
           /\ IF e = "none"
                THEN /\ inv' = [inv EXCEPT ![m].pc = "list", ![m].g = msg[m].taskGroupId,
                                           ![m].build = Builds[msg[m].taskGroupId],
                                           ![m].agg = "success", ![m].token = 0,
                                           ![m].seen = {}]
                     /\ UNCHANGED <<settled, reports, acked>>
                ELSE /\ inv' = [inv EXCEPT ![m].pc = "done", ![m].err = e]
                     /\ Settle(m, e)
  /\ UNCHANGED <<jobQueueName, statusQueueName, repoconf, msg, Builds, CheckRuns,
                 ghChecks, ghComments, taskState>>

\* The number of members of group g with an identifier below t
Before(g, t) == Cardinality({u \in Members(g) : u < t})

\* The page of listTaskGroup that starts after `token` members and holds `size`:
\* the queue lists the members of a group in the order of their identifiers
Page(g, token, size) ==
  {t \in Members(g) : Before(g, t) >= token /\ Before(g, t) < token + size}

\* The tasks of a page as listTaskGroup returns them: each with its status
Listed(g, page) == {<<t, taskState[<<g, t>>]>> : t \in page}

\* Aggregate with groupState set anew on every page: the outcome of the last page
AggregateLastPage(agg, g, page) ==
  IF \E t \in page : taskState[<<g, t>>] \in {"failed", "exception"}
    THEN "failure" ELSE "success"

\* The forEach over a page: groupState turns to failure on a failed task
Aggregate(agg, g, page) ==
  IF \E t \in page : taskState[<<g, t>>] \in {"failed", "exception"}
    THEN "failure" ELSE agg

\* BuildModifier stamping the time of creation too
BuildModifierStampsCreated(b, groupState) ==
  IF b.state # "failure"
    THEN [b EXCEPT !.state = groupState, !.updated = @ + 1, !.created = @ + 1]
    ELSE b

\* BuildModifier without the test of b.state
BuildModifierUnguarded(b, groupState) ==
  [b EXCEPT !.state = groupState, !.updated = @ + 1]

\* The modifier groupStatusHandler hands to build.modify
BuildModifier(b, groupState) ==
  IF b.state # "failure"
    THEN [b EXCEPT !.state = groupState, !.updated = @ + 1]
    ELSE b

\* EtagMatches with the version left unchecked: the write always goes through
EtagIgnored(stored, held) == TRUE

\* The condition of the write of modify: the table holds the version the
\* handler's copy was loaded at
EtagMatches(stored, held) == stored.etag = held.etag

\* groupStatusHandler ends with the error e ("none": fulfilled)
GroupEnd(m, e) ==
  /\ inv' = [inv EXCEPT ![m].pc = "done", ![m].err = e, ![m].build = NoBuild,
                        ![m].seen = {}]
  /\ Settle(m, e)

\* build.modify on the copy `build` with the aggregate agg: the modifier runs on
\* the copy; a copy it leaves as it is is not written, modify returns with no
\* call of the store and the handler ends; a changed one is sent to the store
GroupToModify(m, build, agg, seen) ==
  IF BuildModifier(build, agg) = build
    THEN /\ inv' = [inv EXCEPT ![m].pc = "done", ![m].agg = agg, ![m].token = 0,
                               ![m].build = NoBuild, ![m].seen = {}]
         /\ Settle(m, "none")
    ELSE /\ inv' = [inv EXCEPT ![m].pc = "modify", ![m].agg = agg, ![m].token = 0,
                               ![m].build = build, ![m].seen = seen]
         /\ UNCHANGED <<settled, reports, acked>>

\* One turn of the do-while: listTaskGroup returns a page and, unless it is the
\* last, a continuation token; after the last page, build.modify
GroupList(m) ==
  /\ inv[m].handler = "groupStatus" /\ inv[m].pc = "list"
  /\ \E listed \in BOOLEAN, size \in 1..MaxTasks :
       LET g == inv[m].g
           page == Page(g, inv[m].token, size)
           more == inv[m].token + size < Cardinality(Members(g))
           e == IF ~listed THEN "ApiError"
                ELSE IF Members(g) = {} THEN "ResourceNotFound" ELSE "none"
       IN  /\ Fault(e)
           /\ IF e # "none" THEN GroupEnd(m, e)
              ELSE IF more
                THEN /\ inv' = [inv EXCEPT ![m].agg = Aggregate(@, g, page),
                                           ![m].seen = @ \cup Listed(g, page),
                                           ![m].token = inv[m].token + size]
                     /\ UNCHANGED <<settled, reports, acked>>
                ELSE GroupToModify(m, inv[m].build, Aggregate(inv[m].agg, g, page),
                                   inv[m].seen \cup Listed(g, page))
  /\ UNCHANGED <<jobQueueName, statusQueueName, repoconf, msg, Builds, CheckRuns,
                 ghChecks, ghComments, taskState>>

\* The write of build.modify is answered: a call of the store that can fail; the
\* changed copy is written if the table still holds the version the copy was
\* loaded at, else modify loads the record again
GroupModify(m) ==
  /\ inv[m].handler = "groupStatus" /\ inv[m].pc = "modify"
  /\ \E stored \in BOOLEAN :
       LET g == inv[m].g
           old == inv[m].build
           new == BuildModifier(old, inv[m].agg)
           e == IF ~stored THEN "StorageError" ELSE "none"
           written == [new EXCEPT !.etag = @ + 1]
       IN  /\ Fault(e)
           /\ IF new = old \/ e # "none"
                THEN GroupEnd(m, e) /\ UNCHANGED Builds
                ELSE IF EtagMatches(Builds[g], old)
                  THEN /\ Builds' = [Builds EXCEPT ![g] = written]
                       /\ GroupEnd(m, "none")
                  ELSE /\ inv' = [inv EXCEPT ![m].pc = "reload"]
                       /\ UNCHANGED <<Builds, settled, reports, acked>>
  /\ UNCHANGED <<jobQueueName, statusQueueName, repoconf, msg, CheckRuns,
                 ghChecks, ghComments, taskState>>

\* The load modify makes after a write that met another version is answered;
\* the modifier runs again, on the record as loaded
GroupReload(m) ==
  /\ inv[m].handler = "groupStatus" /\ inv[m].pc = "reload"
  /\ \E loaded \in BOOLEAN :
       LET e == IF ~loaded THEN "StorageError" ELSE "none"
       IN  /\ Fault(e)
           /\ IF e # "none" THEN GroupEnd(m, e)
              ELSE GroupToModify(m, Builds[inv[m].g], inv[m].agg, inv[m].seen)
  /\ UNCHANGED <<jobQueueName, statusQueueName, repoconf, msg, Builds, CheckRuns,
                 ghChecks, ghComments, taskState>>

----------------------------------------------------------------------------
Next ==
  \/ \E m \in JobMsgs, p \in JobPayloads : PublishJob(m, p)
  \/ \E g \in Groups, t \in Tasks, s \in Terminal : TaskResolves(g, t, s)
  \/ \E g \in Groups, t \in Tasks : TaskReruns(g, t)
  \/ \E m \in StatusMsgs, g \in Groups, t \in Tasks : PublishStatus(m, g, t)
  \/ \E m \in GroupMsgs, g \in Groups : PublishGroup(m, g)
  \/ \E m \in MsgIds, l \in Listeners : Deliver(m, l)
  \/ \E m \in JobMsgs : JobAuth(m)
  \/ \E m \in JobMsgs : JobSha(m)
  \/ \E m \in JobMsgs : JobFetch(m)
  \/ \E m \in JobMsgs : JobPermission(m)
  \/ \E m \in JobMsgs : JobComment(m)
  \/ \E m \in JobMsgs, i \in Tasks : JobCreateTask(m, i)
  \/ \E m \in JobMsgs : JobSubmitComment(m)
  \/ \E m \in JobMsgs, i \in Tasks : JobCheckRun(m, i)
  \/ \E m \in JobMsgs, i \in Tasks : JobCheckRecord(m, i)
  \/ \E m \in JobMsgs : JobCreateBuild(m)
  \/ \E m \in MsgIds : StatusLoadBuild(m)
  \/ \E m \in MsgIds : StatusLoadCheck(m)
  \/ \E m \in MsgIds : StatusAuth(m)
  \/ \E m \in MsgIds : StatusUpdate(m)
  \/ \E m \in MsgIds : GroupLoad(m)
  \/ \E m \in MsgIds : GroupList(m)
  \/ \E m \in MsgIds : GroupModify(m)
  \/ \E m \in MsgIds : GroupReload(m)

Spec == Init /\ [][Next]_vars

\* The runs for a repository whose config compiles to a graph of one task
InitOneTask == Init /\ repoconf = [kind |-> "tasks", n |-> 1]

SpecOneTask == InitOneTask /\ [][Next]_vars

----------------------------------------------------------------------------
(* Properties *)

\* The job invocations that are past the try block around createTasks
Submitted(m) ==
  /\ inv[m].handler = "job" /\ inv[m].path = "proceed"
  /\ inv[m].pc \notin {"createTasks", "submitComment"}

\* C1: a second delivery of a job message for a task group whose Build record
\* exists never ends in an error: no job invocation fails in the .catch of
\* Builds.create, neither on its load of the record nor on its assertions.
C1_DuplicateDeliveryRaisesNoError ==
  \A m \in JobMsgs : inv[m].err \notin {"TypeError", "AssertionError"}

\* C2: a Build record in state failure stays in state failure: no step of any
\* handler takes it to another state (or removes it).
C2_StickyFailure ==
  [][\A g \in Groups :
       (Builds[g].exists /\ Builds[g].state = "failure")
         => (Builds'[g].exists /\ Builds'[g].state = "failure")]_vars

\* C2 witness: groupStatusHandler has run to its end with the aggregate success
\* on a Build record that is in state failure.
C2_Witness ==
  \E m \in MsgIds :
    /\ inv[m].handler = "groupStatus" /\ inv[m].pc = "done" /\ inv[m].err = "none"
    /\ inv[m].agg = "success"
    /\ Builds[inv[m].g].exists /\ Builds[inv[m].g].state = "failure"

\* C3: statusHandler, handling the terminal event of a task jobHandler submitted,
\* never finds the Build record or the Check record missing.
C3_StatusHandlerFindsRecords ==
  \A m \in MsgIds :
    (inv[m].handler = "status" /\ msg[m].kind = "status")
      => inv[m].err # "ResourceNotFound"

\* C4: a message is acknowledged only once its handler has settled.
C4_AckAfterSettle ==
  \A m \in MsgIds : acked[m] => settled[m] # "no"

\* C5: a handler that threw was reported to the monitor exactly once (and one
\* that did not throw, never), and whatever has been thrown, every published
\* message that waits on a queue can still be dispatched.
C5_ReportedOnceAndKeepsConsuming ==
  /\ \A m \in MsgIds :
       /\ settled[m] = "rejected" <=> (inv[m].pc = "done" /\ inv[m].err # "none")
       /\ reports[m] = IF settled[m] = "rejected" THEN 1 ELSE 0
  /\ \A m \in MsgIds :
       (msg[m] # NoMsg /\ inv[m].handler = "none")
         => ENABLED (\E l \in Listeners : Deliver(m, l))

\* C5 witness: one handler has thrown and was reported, and a message published
\* is still waiting to be dispatched.
C5_Witness ==
  \E a \in MsgIds, b \in MsgIds :
    /\ settled[a] = "rejected" /\ reports[a] = 1
    /\ msg[b] # NoMsg /\ inv[b].handler = "none"

\* C6: every message is handled by the handler of its own kind.
C6_OwnKindOnly ==
  \A m \in MsgIds :
    inv[m].handler # "none" =>
      inv[m].handler = CASE msg[m].kind = "job" -> "job"
                         [] msg[m].kind = "status" -> "status"
                         [] msg[m].kind = "group" -> "groupStatus"

\* C7, in every state: a job invocation past createTasks, whatever the outcome
\* of the submission, has started a check-run chain for every task of the graph;
\* a chain that is through has opened a check-run and left a Check record; an
\* invocation that ended without error has a Build record, and has posted the
\* explanatory comment exactly when the submission failed.
C7_State ==
  \A m \in JobMsgs :
    Submitted(m) =>
      /\ inv[m].groupState \in {Queued, Failed}
      /\ \A i \in 1..inv[m].n :
           /\ inv[m].chain[i] # "idle"
           /\ inv[m].chain[i] = "ok" =>
                (ghChecks[<<m, i>>].exists /\ CheckRuns[<<inv[m].g, i>>].exists)
           /\ ghChecks[<<m, i>>].exists =>
                ghChecks[<<m, i>>].title =
                  (IF inv[m].groupState = Queued THEN "Queued" ELSE "Failure")
      /\ settled[m] = "fulfilled" =>
           /\ \A i \in 1..inv[m].n : inv[m].chain[i] = "ok"
           /\ Builds[inv[m].g].exists
           /\ ghComments[m] = IF inv[m].groupState = Queued THEN <<>>
                              ELSE <<ExceptionComment("SubmitError", 0)>>

\* C7, in every step: createTasks is followed by the check-run chains; a
\* check-run is opened queued after a submission that succeeded and completed
\* with conclusion failure after one that failed; the Build record is created
\* in state queued, respectively failure.
C7_Step ==
  /\ \A m \in JobMsgs :
       ( /\ inv[m].pc \in {"createTasks", "submitComment"}
         /\ inv'[m].pc \notin {"createTasks", "submitComment"} ) =>
         /\ inv'[m].pc = "checks"
         /\ inv'[m].groupState =
              (IF \E i \in 1..inv[m].n : inv'[m].submit[i] = "err" THEN Failed ELSE Queued)
         /\ \A i \in 1..inv[m].n : inv'[m].chain[i] = "pending"
  /\ \A m \in JobMsgs, i \in Tasks :
       (~ghChecks[<<m, i>>].exists /\ ghChecks'[<<m, i>>].exists) =>
         /\ i <= inv[m].n
         /\ IF inv[m].groupState = Queued
              THEN /\ ghChecks'[<<m, i>>].status = "queued"
                   /\ ghChecks'[<<m, i>>].conclusion = Undefined
              ELSE /\ ghChecks'[<<m, i>>].status = "completed"
                   /\ ghChecks'[<<m, i>>].conclusion = "failure"
  /\ \A g \in Groups :
       (~Builds[g].exists /\ Builds'[g].exists) =>
         \E m \in JobMsgs :
           /\ inv[m].pc = "checks" /\ inv'[m].pc = "done" /\ inv[m].g = g
           /\ Builds'[g].state = IF inv[m].groupState = Queued THEN "queued" ELSE "failure"

\* C7: phase 2 follows phase 1 whether the submission succeeds or fails, and
\* the check-runs, the Build record and the comment reflect its outcome.
C7_PhaseTwoFollows == [](C7_State) /\ [][C7_Step]_vars

\* C7 witness: an invocation whose submission failed has ended without error: the
\* check-runs are opened completed/failure, the Build record is in state failure.
C7_Witness ==
  \E m \in JobMsgs :
    /\ Submitted(m) /\ settled[m] = "fulfilled" /\ inv[m].groupState = Failed
    /\ inv[m].n = 2
    /\ Builds[inv[m].g].exists /\ Builds[inv[m].g].state = "failure"
    /\ \A i \in 1..2 : ghChecks[<<m, i>>].exists /\ ghChecks[<<m, i>>].conclusion = "failure"

\* The check-run of task t of group g has been updated by a status handler
UpdatedByStatus(g, t) ==
  \E s \in MsgIds :
    /\ inv[s].handler = "status" /\ settled[s] = "fulfilled"
    /\ msg[s].taskGroupId = g /\ msg[s].taskId = t

\* C8: a single job invocation for a push whose config compiles to n >= 1 tasks
\* and whose submission succeeds, once it has ended: GitHub holds exactly n
\* check-runs, opened queued; the CheckRuns table holds exactly n records, one
\* per task, each with the identifier of the check-run opened for that task; the
\* Builds table holds exactly one record, under the task group, created queued.
C8_PushCreatesRecords ==
  \A m \in JobMsgs :
    ( /\ Submitted(m) /\ settled[m] = "fulfilled" /\ inv[m].groupState = Queued
      /\ msg[m].eventType = <<"push">>
      /\ \A o \in JobMsgs \ {m} : inv[o].handler = "none" )
    => LET n == inv[m].n
           g == inv[m].g
       IN  /\ n >= 1
           /\ {k \in DOMAIN ghChecks : ghChecks[k].exists} = {<<m, i>> : i \in 1..n}
           /\ \A i \in 1..n :
                /\ ghChecks[<<m, i>>].title = "Queued"
                /\ ghChecks[<<m, i>>].details = <<g, i>>
                /\ \/ ghChecks[<<m, i>>].status = "queued"
                   \/ UpdatedByStatus(g, i)
                /\ CheckRuns[<<g, i>>].checkRunId = <<m, i>>
           /\ {k \in DOMAIN CheckRuns : CheckRuns[k].exists} = {<<g, i>> : i \in 1..n}
           /\ {h \in Groups : Builds[h].exists} = {g}
           /\ Builds[g].taskGroupId = g
           /\ Builds[g].updated = 0 => Builds[g].state = "queued"

\* C8 witness: the push scenario with two tasks has run to its end.
C8_Witness ==
  \E m \in JobMsgs :
    /\ Submitted(m) /\ settled[m] = "fulfilled" /\ inv[m].groupState = Queued
    /\ msg[m].eventType = <<"push">> /\ inv[m].n = 2
    /\ \A o \in JobMsgs \ {m} : inv[o].handler = "none"
    /\ Builds[inv[m].g].state = "queued"

\* The answers the collaborators can give jobHandler before it submits tasks
PreludeAnswers ==
  [auth : BOOLEAN, tagOk : BOOLEAN, fetch : {"ok", "404", "error"},
   allowed : {"yes", "no", "YAMLException", "error"}, posted : BOOLEAN]

\* JobPrelude on the answers a
PreludeOn(p, conf, a) == JobPrelude(p, conf, a.auth, a.tagOk, a.fetch, a.allowed, a.posted)

\* The answers with which jobHandler gets as far as fetching the config
ReachesFetch(p, a) == a.auth /\ (p.sha # Undefined \/ a.tagOk)

\* C9, of the branches of jobHandler: with the config file absent (a 404 from
\* getContent) the handler takes the branch that skips, and so it does with a
\* config that compiles to zero tasks; on both the handler returns, without an
\* error and without a comment.
C9_Branches ==
  \A p \in JobPayloads, conf \in Confs, a \in PreludeAnswers :
    LET r == PreludeOn(p, conf, a)
    IN  /\ (ReachesFetch(p, a) /\ a.fetch = "404") => r.path = "no-yml"
        /\ (ReachesFetch(p, a) /\ a.fetch = "ok" /\ conf.kind = "tasks" /\ conf.n = 0)
             => r.path = "zero-tasks"
        /\ r.path \in {"no-yml", "zero-tasks"} =>
             (r.err = "none" /\ r.comment.summary = "none")

\* C9, in every state: an invocation that skipped is at its end, fulfilled and
\* not reported, has posted no comment, opened no check-run, started no chain,
\* and no Check record holds a check-run of its.
C9_State ==
  \A m \in JobMsgs :
    inv[m].path \in {"no-yml", "zero-tasks"} =>
      /\ inv[m].pc = "done" /\ inv[m].err = "none"
      /\ settled[m] = "fulfilled" /\ reports[m] = 0
      /\ ghComments[m] = <<>>
      /\ \A i \in Tasks : inv[m].chain[i] = "idle" /\ ~ghChecks[<<m, i>>].exists
      /\ \A k \in DOMAIN CheckRuns :
           CheckRuns[k].exists => CheckRuns[k].checkRunId[1] # m

\* C9, in every step: the step in which an invocation skips submits no task and
\* leaves the comments, the check-runs and both tables as they are.
C9_Step ==
  \A m \in JobMsgs :
    (inv[m].path = "none" /\ inv'[m].path \in {"no-yml", "zero-tasks"})
      => UNCHANGED <<taskState, ghComments, ghChecks, CheckRuns, Builds>>

\* C9: a job whose repository has no config file, or whose config compiles to
\* zero tasks, is skipped silently: no error, no comment, no task, no check-run,
\* no Check or Build record.
C9_NotOptedInSkipped == [](C9_Branches /\ C9_State) /\ [][C9_Step]_vars

\* C9 witness: one invocation has skipped on a 404 and another on a config of
\* zero tasks.
C9_Witness ==
  \E a \in JobMsgs, b \in JobMsgs :
    /\ inv[a].path = "no-yml" /\ settled[a] = "fulfilled"
    /\ inv[b].path = "zero-tasks" /\ settled[b] = "fulfilled"

\* C10, of the branches of jobHandler: for a pull request that prAllowed refuses
\* the handler takes the branch that comments and stops, and it goes on to
\* createTasks for a pull request only on the answer yes.
C10_Branches ==
  \A p \in JobPayloads, conf \in Confs, a \in PreludeAnswers :
    LET r == PreludeOn(p, conf, a)
    IN  /\ ( /\ IsPullRequest(p.eventType) /\ a.allowed = "no"
             /\ ReachesFetch(p, a) /\ a.fetch = "ok" /\ conf.kind = "tasks" /\ conf.n > 0 )
             => r.path = "not-allowed"
        /\ (r.path = "proceed" /\ IsPullRequest(p.eventType)) => a.allowed = "yes"
        /\ r.path = "not-allowed" =>
             IF a.posted THEN r.err = "none" /\ r.comment = NotAllowedComment
             ELSE r.err = "ApiError" /\ r.comment.summary = "none"

\* C10, in every state: an invocation refused by the permission check is at its
\* end, has started no chain and opened no check-run, and has posted the one
\* comment on allowPullRequests (none if posting the comment itself failed, which
\* is the error it then ends with); tasks are submitted only by invocations the
\* check let through.
C10_State ==
  \A m \in JobMsgs :
    /\ inv[m].path = "not-allowed" =>
         /\ IsPullRequest(msg[m].eventType)
         /\ inv[m].pc = "done"
         /\ \A i \in Tasks : inv[m].chain[i] = "idle" /\ ~ghChecks[<<m, i>>].exists
         /\ \A k \in DOMAIN CheckRuns :
              CheckRuns[k].exists => CheckRuns[k].checkRunId[1] # m
         /\ \A i \in Tasks : inv[m].submit[i] = "idle"
         /\ IF inv[m].err = "none"
              THEN /\ settled[m] = "fulfilled"
                   /\ ghComments[m] = <<NotAllowedComment>>
                   /\ ghComments[m][1].error = "allowPullRequests"
              ELSE inv[m].err = "ApiError" /\ ghComments[m] = <<>>
    /\ (inv[m].handler = "job" /\ inv[m].pc \in {"permission", "comment"}) =>
         \A i \in Tasks : inv[m].submit[i] = "idle" /\ inv[m].chain[i] = "idle"
    /\ (\E i \in Tasks : inv[m].submit[i] # "idle") => inv[m].path = "proceed"

\* C10, in every step: the step in which an invocation is refused submits no
\* task and leaves the check-runs and both tables as they are; a task is
\* submitted only by an invocation that has passed the permission check.
C10_Step ==
  /\ \A m \in JobMsgs :
       (inv[m].path = "none" /\ inv'[m].path = "not-allowed")
         => UNCHANGED <<taskState, ghChecks, CheckRuns, Builds>>
  /\ \A k \in DOMAIN taskState :
       (taskState[k] = "none" /\ taskState'[k] # "none")
         => \E m \in JobMsgs :
              /\ inv[m].path = "proceed" /\ inv[m].g = k[1]
              /\ inv[m].submit[k[2]] = "pending" /\ inv'[m].submit[k[2]] = "ok"

\* C10: a pull request whose actor the permission check refuses gets exactly
\* one comment, on allowPullRequests, and nothing else: no task is submitted, no
\* check-run opened, no record created; the check comes before any submission.
C10_NotPermittedStops == [](C10_Branches /\ C10_State) /\ [][C10_Step]_vars

\* C10 witness: an invocation for a pull request has been refused and has
\* posted its comment.
C10_Witness ==
  \E m \in JobMsgs :
    /\ inv[m].path = "not-allowed" /\ settled[m] = "fulfilled"
    /\ ghComments[m] = <<NotAllowedComment>>

\* C11: a pull request whose permission check fails on a config of the default
\* branch that is no YAML (prAllowed throws a YAMLException) is answered with a
\* comment and the handler returns: it ends without an error.
C11_PermissionYamlCommentsAndStops ==
  \A m \in JobMsgs :
    inv[m].path = "permission-yaml" =>
      /\ inv[m].err = "none" /\ settled[m] = "fulfilled"
      /\ Len(ghComments[m]) = 1

\* C12, of the branches of jobHandler: with a fetched config that is no YAML the
\* handler takes the branch that posts the parse error and returns, on the pull
\* request when the payload has a pull number, else on the commit.
C12_Branches ==
  \A p \in JobPayloads, a \in PreludeAnswers :
    LET r == PreludeOn(p, [kind |-> "yamlError", n |-> 0], a)
    IN  (ReachesFetch(p, a) /\ a.fetch = "ok") =>
          /\ r.path = "bad-yaml"
          /\ IF a.posted
               THEN /\ r.err = "none"
                    /\ r.comment.error = "YAMLException"
                    /\ r.comment.on = IF p.pullNumber # 0 THEN "pull" ELSE "commit"
               ELSE r.err = "ApiError" /\ r.comment.summary = "none"

\* C12, in every state: an invocation that met invalid YAML is at its end, has
\* started no chain and opened no check-run, no Check record holds a check-run of
\* its, and it has posted the one comment with the parse error (none if posting
\* the comment itself failed, which is the error it then ends with).
C12_State ==
  \A m \in JobMsgs :
    inv[m].path = "bad-yaml" =>
      /\ repoconf.kind = "yamlError"
      /\ inv[m].pc = "done"
      /\ \A i \in Tasks : inv[m].chain[i] = "idle" /\ ~ghChecks[<<m, i>>].exists
      /\ \A k \in DOMAIN CheckRuns :
           CheckRuns[k].exists => CheckRuns[k].checkRunId[1] # m
      /\ IF inv[m].err = "none"
           THEN /\ settled[m] = "fulfilled"
                /\ Len(ghComments[m]) = 1
                /\ ghComments[m][1].error = "YAMLException"
                /\ ghComments[m][1].on =
                     (IF msg[m].pullNumber # 0 THEN "pull" ELSE "commit")
           ELSE inv[m].err = "ApiError" /\ ghComments[m] = <<>>

\* C12, in every step: the step in which an invocation meets invalid YAML submits
\* no task and leaves the check-runs and both tables as they are; with a config
\* that is no YAML no task is ever submitted and no record ever created.
C12_Step ==
  /\ \A m \in JobMsgs :
       (inv[m].path = "none" /\ inv'[m].path = "bad-yaml")
         => UNCHANGED <<taskState, ghChecks, CheckRuns, Builds>>
  /\ repoconf.kind = "yamlError"
       => UNCHANGED <<taskState, ghChecks, CheckRuns, Builds>>

\* C12: a job whose config is invalid YAML gets exactly one comment, with the
\* parse error, on the pull request if there is one and else on the commit, and
\* nothing else: submission is not attempted, no check-run or record is created.
C12_InvalidYamlCommentsOnce == [](C12_Branches /\ C12_State) /\ [][C12_Step]_vars

\* C12 witness: an invocation for a pull request has met invalid YAML and has
\* posted its comment on the pull request.
C12_Witness ==
  \E m \in JobMsgs :
    /\ inv[m].path = "bad-yaml" /\ settled[m] = "fulfilled"
    /\ msg[m].pullNumber # 0
    /\ ghComments[m] = <<ExceptionComment("YAMLException", msg[m].pullNumber)>>

\* The branches of jobHandler that answer an error of the user's configuration
UserErrorPaths == {"bad-yaml", "bad-config", "not-allowed", "permission-yaml"}

\* C13: an invocation that ended on an error of the user's configuration (a
\* config that is no YAML or does not compile, on the head commit or on the
\* default branch, or a refused pull request) did not throw and was not reported
\* to the monitor, the failure of a remote call apart.
C13_UserErrorsNotReported ==
  \A m \in JobMsgs :
    (inv[m].path \in UserErrorPaths /\ ~IsFault(inv[m].err)) =>
      /\ inv[m].pc = "done" /\ inv[m].err = "none"
      /\ settled[m] = "fulfilled" /\ reports[m] = 0

\* C14 as stated: an invocation that met a failure of another kind than an
\* error of the user's configuration or a refused pull request (the failure of a
\* remote call, or of the submission of the tasks) has posted no comment.
C14_OtherFailuresPostNoComment ==
  \A m \in JobMsgs :
    (IsFault(inv[m].err) \/ (Submitted(m) /\ inv[m].groupState = Failed))
      => ghComments[m] = <<>>

\* C14, in every state: an invocation has posted at most one comment, and a
\* comment only on these branches: the parse error for a config that is no YAML,
\* the compilation error for one that does not compile, the allowPullRequests
\* note for a refused pull request, and the error of createTasks, on the commit,
\* after a submission that failed.  On every other path (an API fault before the
\* submission, a config absent or of zero tasks, a submission that succeeded,
\* whatever API or storage fault follows it) there is no comment.
C14_State ==
  \A m \in JobMsgs :
    /\ Len(ghComments[m]) <= 1
    /\ \A i \in 1..Len(ghComments[m]) :
         LET c == ghComments[m][i]
         IN  \/ inv[m].path = "bad-yaml"
                  /\ c = ExceptionComment("YAMLException", msg[m].pullNumber)
             \/ inv[m].path = "bad-config"
                  /\ c = ExceptionComment("ConfigError", msg[m].pullNumber)
             \/ inv[m].path = "not-allowed" /\ c = NotAllowedComment
             \/ /\ Submitted(m) /\ inv[m].groupState = Failed
                /\ c = ExceptionComment("SubmitError", 0) /\ c.on = "commit"
    /\ inv[m].path \in {"threw", "no-yml", "zero-tasks", "permission-yaml"}
         => ghComments[m] = <<>>
    /\ (inv[m].path = "proceed" /\ inv[m].groupState = Queued) => ghComments[m] = <<>>

\* C14, in every step: a step in which a remote call fails posts no comment, and
\* a comment is posted only by the step of jobHandler that answers a user error
\* or a failed submission: not by the steps before it, of the check-run chains,
\* of Builds.create, of statusHandler or of groupStatusHandler.
C14_Step ==
  /\ faults' # faults => ghComments' = ghComments
  /\ \A m \in MsgIds :
       ghComments'[m] # ghComments[m] =>
         /\ m \in JobMsgs
         /\ inv[m].pc \in {"comment", "submitComment"}

\* C14, amended: comments come from errors of the user's configuration, from
\* refused pull requests and from failures of the submission of the tasks, and
\* from nothing else: no API or storage fault posts one.
C14_CommentsOnlyOnUserAndSubmitErrors == [](C14_State) /\ [][C14_Step]_vars

\* C14 witness: an invocation whose submission failed has posted the comment
\* with the error of createTasks and has gone through its finally block.
C14_Witness ==
  \E m \in JobMsgs :
    /\ Submitted(m) /\ inv[m].groupState = Failed /\ inv[m].pc = "done"
    /\ ghComments[m] = <<ExceptionComment("SubmitError", 0)>>

\* C15: when Builds.create, the store answering, finds a record that differs
\* from the values the invocation computed, the invocation ends with the failure
\* of an assertion and the record stays as it is.
C15_MismatchIsAssertion ==
  [][\A m \in JobMsgs :
       ( /\ inv[m].handler = "job" /\ inv[m].pc = "checks" /\ inv'[m].pc = "done"
         /\ \A i \in 1..inv[m].n : inv'[m].chain[i] = "ok"
         /\ Builds[inv[m].g].exists /\ faults' = faults
         /\ ~BuildMatches(Builds[inv[m].g], NewBuild(m)) )
       => (inv'[m].err = "AssertionError" /\ Builds' = Builds)]_vars

\* C16, in every step of statusHandler on a task-terminal message: the step
\* that answers checks.update, when it does not fail, updates the check-run whose
\* identifier the Check record of the (task group, task) pair holds, and no
\* other, to completed with the conclusion CONCLUSIONS gives the task's state,
\* and the handler is fulfilled; a step in which a call fails updates nothing and
\* the handler is rejected with that failure; no other step touches a check-run.
C16_Step ==
  \A m \in MsgIds :
    ( /\ inv[m].handler = "status" /\ msg[m].kind = "status"
      /\ inv'[m] # inv[m] )
    => LET run == CheckRuns[<<msg[m].taskGroupId, msg[m].taskId>>].checkRunId
           conclusion == IF msg[m].state = "completed" THEN "success" ELSE "failure"
       IN  IF faults' # faults
             THEN /\ inv'[m].pc = "done"
                  /\ IsFault(inv'[m].err) /\ settled'[m] = "rejected"
                  /\ reports'[m] = reports[m] + 1
                  /\ ghChecks' = ghChecks
             ELSE IF inv[m].pc = "update"
               THEN /\ inv'[m].pc = "done"
                    /\ inv'[m].err = "none" /\ settled'[m] = "fulfilled"
                    /\ ghChecks' = [ghChecks EXCEPT ![run] =
                                      [@ EXCEPT !.status = "completed",
                                                !.conclusion = conclusion]]
               ELSE ghChecks' = ghChecks

\* C16, in every state: a statusHandler that has loaded its records holds the
\* Build record's installation, as which it authenticates, and the identifier
\* of the Check record of the (task group, task) pair of its message.
C16_State ==
  \A m \in StatusMsgs :
    (inv[m].handler = "status" /\ inv[m].pc \in {"auth", "update"})
    => /\ Builds[msg[m].taskGroupId].exists
       /\ CheckRuns[<<msg[m].taskGroupId, msg[m].taskId>>].exists
       /\ inv[m].build.installationId = Builds[msg[m].taskGroupId].installationId
       /\ inv[m].run = CheckRuns[<<msg[m].taskGroupId, msg[m].taskId>>].checkRunId

\* C16: statusHandler updates exactly the check-run of the Check record, as the
\* Build's installation, to completed with success for completed and failure
\* for failed and exception, and lets a failure of the authentication or of the
\* update out.
C16_StatusUpdatesCheckRun == [](C16_State) /\ [][C16_Step]_vars

\* C16 witness: statusHandler has handled the message of a failed task and the
\* check-run of the task's Check record is completed with conclusion failure.
C16_Witness ==
  \E m \in StatusMsgs :
    /\ inv[m].handler = "status" /\ settled[m] = "fulfilled"
    /\ msg[m].state = "failed"
    /\ ghChecks[CheckRuns[<<msg[m].taskGroupId, msg[m].taskId>>].checkRunId].conclusion
         = "failure"

\* The invocations of groupStatusHandler that are listing, or have listed, the group
Listing(m) == inv[m].handler = "groupStatus" /\ inv[m].pc \in {"list", "modify", "reload"}

\* Some task on a page the invocation has been given was failed or exception
SeenFailure(m) == \E x \in inv[m].seen : x[2] \in {"failed", "exception"}

\* No job message is delivered a second time and no createTask has failed: the
\* tasks of a group are those the one submission created, all of them before it
\* created the Build record
SingleSubmission ==
  /\ \A j \in JobMsgs : j[2] > 1 => msg[j] = NoMsg
  /\ \A j \in JobMsgs : inv[j].groupState = Queued

\* C17, in every state: the aggregate of an invocation is failure exactly when
\* some task on some page it has been given so far was failed or exception, and
\* success otherwise; once the listing is over (a page came without a token) the
\* pages have covered every task of the group.
C17_State ==
  \A m \in MsgIds :
    Listing(m) =>
      /\ inv[m].agg = IF SeenFailure(m) THEN "failure" ELSE "success"
      /\ (inv[m].pc \in {"modify", "reload"} /\ SingleSubmission)
           => {x[1] : x \in inv[m].seen} = Members(inv[m].g)

\* C17, in every step: a page with a continuation token is followed by the next
\* page; and build.modify, when it ends without error, has set the state of a
\* Build record that was not in state failure to the aggregate, and has left a
\* record in state failure as it was, which it does without a write.
C17_Step ==
  \A m \in MsgIds :
    /\ ( /\ inv[m].handler = "groupStatus" /\ inv[m].pc = "list"
         /\ inv'[m].pc = "list" /\ inv'[m] # inv[m] )
         => (inv'[m].token > inv[m].token /\ inv[m].seen \subseteq inv'[m].seen
             /\ inv'[m].seen # inv[m].seen)
    /\ ( /\ inv[m].handler = "groupStatus" /\ inv[m].pc = "modify"
         /\ inv'[m].pc = "done" /\ inv'[m].err = "none" )
         => LET g == inv[m].g
            IN  IF Builds[g].state # "failure"
                  THEN /\ Builds'[g].state = inv[m].agg
                       /\ Builds'[g].updated = Builds[g].updated + 1
                  ELSE Builds' = Builds
    /\ ( /\ inv[m].handler = "groupStatus" /\ inv[m].pc \in {"list", "reload"}
         /\ inv'[m].pc = "done" /\ inv'[m].err = "none" )
         => (Builds[inv[m].g].state = "failure" /\ Builds' = Builds)

\* C17: the aggregate of groupStatusHandler is taken over all pages of the
\* listing, failure exactly when a task on any page is failed or exception,
\* and is what the handler sets the state of a Build not in state failure to.
C17_AggregateOverAllPages == [](C17_State) /\ [][C17_Step]_vars

\* C17 witness: the handler has listed a group of two tasks, the first failed
\* and the second completed, and has set the Build record to failure.
C17_Witness ==
  \E m \in MsgIds :
    /\ inv[m].handler = "groupStatus" /\ inv[m].pc = "done" /\ inv[m].err = "none"
    /\ inv[m].agg = "failure"
    /\ taskState[<<inv[m].g, 1>>] = "failed" /\ taskState[<<inv[m].g, 2>>] = "completed"
    /\ Builds[inv[m].g].state = "failure" /\ Builds[inv[m].g].updated = 1

\* C18, in every step: a Check record, once created, stays as it is; the step
\* of a chain that opens the check-run leaves the table alone; in the step of
\* CheckRuns.create, when the store answers, the chain of a task whose Check
\* record exists ends well (already-exists is swallowed) and a record that does
\* not exist is created as NewCheckRecord gives it; when the store fails, record
\* there or not, the chain ends in error and the handler rejected with a
\* storage error.
C18_Step ==
  /\ \A k \in DOMAIN CheckRuns : CheckRuns[k].exists => CheckRuns'[k] = CheckRuns[k]
  /\ \A m \in JobMsgs, i \in Tasks :
       (inv[m].handler = "job" /\ inv[m].chain[i] = "pending" /\ inv'[m].chain[i] # "pending")
       => /\ CheckRuns' = CheckRuns
          /\ inv'[m].chain[i] = IF ghChecks'[<<m, i>>].exists THEN "created" ELSE "err"
  /\ \A m \in JobMsgs, i \in Tasks :
       (inv[m].handler = "job" /\ inv[m].chain[i] = "created" /\ inv'[m].chain[i] # "created")
       => LET k == <<inv[m].g, i>>
          IN  IF faults' # faults
                THEN /\ inv'[m].chain[i] = "err" /\ CheckRuns' = CheckRuns
                     /\ inv[m].pc = "checks" => inv'[m].err = "StorageError"
                ELSE IF CheckRuns[k].exists
                  THEN /\ inv'[m].chain[i] = "ok" /\ CheckRuns' = CheckRuns
                       /\ inv'[m].err = inv[m].err /\ inv'[m].pc = inv[m].pc
                  ELSE CheckRuns'[k] = NewCheckRecord(m, i) /\ inv'[m].chain[i] = "ok"
  /\ \A m \in JobMsgs, i \in Tasks :
       (inv[m].handler = "job" /\ inv[m].chain[i] # "err" /\ inv'[m].chain[i] = "err")
       => /\ inv'[m].pc = "done" /\ IsFault(inv'[m].err)
          /\ settled'[m] = "rejected"

\* C18, in every state: the Check record of a pair holds the pair and the
\* identifier of a check-run that was opened for that task.
C18_State ==
  \A k \in DOMAIN CheckRuns :
    CheckRuns[k].exists =>
      /\ CheckRuns[k].taskGroupId = k[1] /\ CheckRuns[k].taskId = k[2]
      /\ CheckRuns[k].checkRunId[2] = k[2]
      /\ ghChecks[CheckRuns[k].checkRunId].exists

\* C18: a Check record is created at most once per (task group, task): the
\* already-exists of CheckRuns.create is taken as success and leaves the stored
\* record as it is, any other storage error leaves the handler.
C18_CheckRecordCreatedOnce == [](C18_State) /\ [][C18_Step]_vars

\* C18 witness: a chain of a second delivery has ended well on a pair whose
\* Check record holds the check-run of the first delivery.
C18_Witness ==
  \E m \in JobMsgs, i \in Tasks :
    /\ inv[m].handler = "job" /\ inv[m].chain[i] = "ok"
    /\ CheckRuns[<<inv[m].g, i>>].exists
    /\ CheckRuns[<<inv[m].g, i>>].checkRunId[1] # m

\* C19: in every step, a record that exists stays (no record is deleted) and a
\* Check record stays as it is; a Build record appears only in the step of
\* jobHandler's Builds.create and a Check record only in a check-run chain of
\* jobHandler; a Build record that exists changes only in a step of
\* groupStatusHandler's modify, and only in state and updated (and the version
\* the store keeps); a step of statusHandler leaves both tables unchanged.
C19_Step ==
  /\ \A g \in Groups : Builds[g].exists => Builds'[g].exists
  /\ \A k \in DOMAIN CheckRuns : CheckRuns[k].exists => CheckRuns'[k] = CheckRuns[k]
  /\ \A g \in Groups :
       (~Builds[g].exists /\ Builds'[g].exists) =>
         \E m \in MsgIds :
           /\ inv[m].handler = "job" /\ inv[m].g = g
           /\ inv[m].pc = "checks" /\ inv'[m].pc = "done"
  /\ \A k \in DOMAIN CheckRuns :
       (~CheckRuns[k].exists /\ CheckRuns'[k].exists) =>
         \E m \in MsgIds :
           /\ inv[m].handler = "job" /\ inv[m].g = k[1]
           /\ inv[m].chain[k[2]] = "created" /\ inv'[m].chain[k[2]] = "ok"
  /\ \A g \in Groups :
       (Builds[g].exists /\ Builds'[g] # Builds[g]) =>
         /\ \E m \in MsgIds :
              /\ inv[m].handler = "groupStatus" /\ inv[m].g = g
              /\ inv[m].pc = "modify" /\ inv'[m].pc = "done"
         /\ Builds'[g] = [Builds[g] EXCEPT !.state = Builds'[g].state,
                                           !.updated = Builds'[g].updated,
                                           !.etag = Builds'[g].etag]
  /\ \A m \in MsgIds :
       (inv[m].handler = "status" /\ inv'[m] # inv[m])
         => (Builds' = Builds /\ CheckRuns' = CheckRuns)

\* C19: jobHandler alone creates Build and Check records, groupStatusHandler
\* alone changes a Build record, in state and updated only, statusHandler
\* writes to neither table, and no record is deleted or Check record changed.
C19_RecordOwnership == [][C19_Step]_vars

\* C19 witness: statusHandler has run to its end and groupStatusHandler has
\* changed the Build record jobHandler created.
C19_Witness ==
  \E s \in MsgIds, m \in MsgIds :
    /\ inv[s].handler = "status" /\ inv[s].pc = "done"
    /\ inv[m].handler = "groupStatus" /\ inv[m].pc = "done" /\ inv[m].err = "none"
    /\ Builds[inv[m].g].exists /\ Builds[inv[m].g].updated = 1
    /\ \E k \in DOMAIN CheckRuns : CheckRuns[k].exists

\* The invocations of groupStatusHandler on group g that ended without error
GroupDone(m, g) ==
  /\ inv[m].handler = "groupStatus" /\ inv[m].pc = "done" /\ inv[m].err = "none"
  /\ inv[m].g = g

\* C20: whatever the interleaving of the invocations of groupStatusHandler on a
\* task group, once an invocation whose aggregate was failure has ended the
\* Build record is in state failure, and the record is in state success only
\* when an invocation has ended and every one that has ended had the aggregate
\* success.
C20_NoLostUpdate ==
  \A g \in Groups :
    /\ \A m \in MsgIds :
         GroupDone(m, g) =>
           /\ Builds[g].exists /\ Builds[g].state \in {"success", "failure"}
           /\ inv[m].agg = "failure" => Builds[g].state = "failure"
    /\ (Builds[g].exists /\ Builds[g].state = "success") =>
         /\ \E m \in MsgIds : GroupDone(m, g)
         /\ \A m \in MsgIds : GroupDone(m, g) => inv[m].agg = "success"

\* C20 witness: two invocations loaded the same version of the Build record and
\* computed different aggregates; the one with failure has written, the one with
\* success is about to modify the copy it holds, which is out of date.
C20_Witness ==
  \E a \in MsgIds, b \in MsgIds :
    /\ GroupDone(a, inv[a].g) /\ inv[a].agg = "failure"
    /\ inv[b].handler = "groupStatus" /\ inv[b].pc = "modify" /\ inv[b].g = inv[a].g
    /\ inv[b].agg = "success"
    /\ inv[b].build.exists /\ inv[b].build.state = "queued"
    /\ Builds[inv[a].g].state = "failure"
    /\ inv[b].build.etag < Builds[inv[a].g].etag

\* C21, in every state: a task group that has a Build record has a Check record
\* for every task of the graph the config compiles to.
C21_State ==
  \A g \in Groups :
    Builds[g].exists =>
      /\ repoconf.kind = "tasks" /\ repoconf.n >= 1
      /\ \A i \in 1..repoconf.n :
           /\ CheckRuns[<<g, i>>].exists
           /\ CheckRuns[<<g, i>>].taskGroupId = g /\ CheckRuns[<<g, i>>].taskId = i

\* C21, in every step: the Build record of a group is created by an invocation
\* all of whose check-run chains have ended well, each leaving the Check record
\* of its task in the table; an invocation with a chain that failed has ended
\* and creates none.
C21_Step ==
  /\ \A g \in Groups :
       (~Builds[g].exists /\ Builds'[g].exists) =>
         \E m \in JobMsgs :
           /\ inv[m].pc = "checks" /\ inv'[m].pc = "done" /\ inv[m].g = g
           /\ inv[m].n = repoconf.n
           /\ \A i \in 1..inv[m].n :
                inv[m].chain[i] = "ok" /\ CheckRuns[<<g, i>>].exists
  /\ \A m \in JobMsgs :
       (\E i \in 1..inv[m].n : inv[m].chain[i] = "err")
         => (inv[m].pc = "done" /\ inv'[m].pc = "done")

\* C21: where a Build record exists, the Check records of all the tasks of its
\* group exist: Builds.create comes after every chain of the Promise.all has
\* ended well, and does not come when one has failed.
C21_BuildImpliesCheckRecords == [](C21_State) /\ [][C21_Step]_vars

\* C21 witness: the Build record of a group exists, with the Check record of
\* its task, after a delivery that lost its chain to a storage error and created
\* no Build record.
C21_Witness ==
  \E a \in JobMsgs, b \in JobMsgs, g \in Groups :
    /\ Builds[g].exists /\ repoconf.n >= 1
    /\ \A i \in 1..repoconf.n : CheckRuns[<<g, i>>].exists
    /\ inv[a].pc = "done" /\ inv[a].err = "StorageError"
    /\ \E i \in 1..repoconf.n : inv[a].chain[i] = "err"
    /\ inv[b].pc = "done" /\ inv[b].err = "none" /\ inv[b].g = g

\* C22: once every job invocation has run to its end, with no remote call
\* having failed, every check-run an invocation opened is the one the Check
\* record of its (task group, task) holds.
C22_EveryCheckRunReferenced ==
  ( /\ faults = 0
    /\ \A m \in JobMsgs : inv[m].handler = "none" \/ inv[m].pc = "done" )
  => \A m \in JobMsgs, i \in Tasks :
       ghChecks[<<m, i>>].exists =>
         /\ CheckRuns[<<inv[m].g, i>>].exists
         /\ CheckRuns[<<inv[m].g, i>>].checkRunId = <<m, i>>

====
